---- MODULE Spec2Model ----
(***************************************************************************)
(* A model of sleep-when-idle.py: the SleepWhenIdle daemon, its run loop,  *)
(* the signal checks of one tick and the calls to systemctl / rtcwake.     *)
(*                                                                         *)
(* Time is counted in abstract units.  Every datetime_now() is an input:   *)
(* the wall clock value it returns is chosen by the environment.  Every    *)
(* subprocess (ip, runuser, rtcwake, systemctl) and the read of            *)
(* /proc/uptime either returns a sample or raises; an exception that no    *)
(* handler catches ends the process (pc = "crashed").                      *)
(***************************************************************************)
EXTENDS Integers, Sequences, FiniteSets, TLC

\* ------------------------------------------------------------- bounds
\* Largest wall clock value a datetime_now() returns.
MaxTime == 6
\* Length of a day, in time units.
DayLen == 3
\* Largest value of the idle counter of /proc/uptime.
MaxCpuIdle == 2
\* Largest rx / tx packet counter of an interface.
MaxPackets == 1
\* How many times the wall clock is set back (SpecClockStep).
MaxClockSteps == 1

\* ---------------------------------------------------- program constants
\* range(10): attempts of the X access validation in __init__.
MaxRetry == 10
\* multiprocessing.cpu_count()
nb_threads == 1

\* Python's None, and a value that is not None.
None == << >>
Some(v) == <<v>>

\* --------------------------------------------------------- value sets
\* -c MAX_USAGE%: the values of args.cpu.
CpuValues == {None, Some(5)}
\* -n PACKETS: the values of args.network.
NetworkValues == {None, Some(0)}
\* -t: the values of args.time (wanted idle duration).
TimeValues == {2}
\* -p: the values of args.meas_period.
PeriodValues == {1}
\* -w: the values of args.wake_up, a time of the day.
WakeUpValues == {None} \cup {Some(t) : t \in 0..(DayLen - 1)}
\* Names "ip -j -s link" reports for an interface that is UP.
IfNames == {"eth0"}

\* class NetStat(typing.NamedTuple), with its defaults.
NetStat(ifname, rx_packets, tx_packets) ==
    [ifname |-> ifname, rx_packets |-> rx_packets, tx_packets |-> tx_packets]

NetStatDefault == NetStat("No UP interface", 0, 0)

\* What get_net_stat() can return.
NetStats ==
    {NetStatDefault} \cup
    {NetStat(n, r, t) : n \in IfNames, r \in 0..MaxPackets, t \in 0..MaxPackets}

\* The parsed command lines: parser.parse_args().
Configs ==
    [cpu : CpuValues, network : NetworkValues, audio : BOOLEAN, x_input : BOOLEAN,
     wake_up : WakeUpValues, pretend : BOOLEAN, time : TimeValues,
     meas_period : PeriodValues]

VARIABLES
    args,        \* self.args
    pc,          \* where the process is: "init", "validate", "while", "wait",
                 \* "check", "terminated", "exited", "crashed"; for a function
                 \* taken alone: "check_x_input" or "checks", then "returned"
    exit_event,  \* self.exit_event (threading.Event): its flag
    self,        \* the dynamic context: now, last_idle, prev_check,
                 \* prev_cpu_idle_counter, prev_net_stat
    cpu_idle,    \* the system's cumulated idle counter (/proc/uptime)
    rtc,         \* the RTC wake alarm: [owner, at]
    retry,       \* _retry of the X access validation (0 once the loop is left)
    last,        \* what the last step of the process did (history)
    sleeps,      \* self.now of the last two sleep requests (history)
    missed_at,   \* self.now after the last reset() of a skipped period (history)
    stopped_at,  \* pc at which the signal handler ran (history)
    clock_steps, \* how many times the clock was seen set back (history)
    suspending   \* systemctl <state> was requested, the machine is not yet asleep

vars == <<args, pc, exit_event, self, cpu_idle, rtc, retry, last, sleeps,
          missed_at, stopped_at, clock_steps, suspending>>

\* self.user exists only when -x or -a was given (lines 226-230).
HasUser(a) == a.x_input \/ a.audio

\* "self.args.x_input is not None": x_input is a store_true flag, its value is
\* True or False, never None.
x_input_is_not_None(a) == a.x_input \in BOOLEAN

\* No signal is enabled.
NoSignals(a) == a.cpu = None /\ a.network = None /\ ~a.audio /\ ~a.x_input

\* ------------------------------------------------------ execution context
\* The effects of the statements executed so far in one step of the process:
\* the object's fields, the RTC alarm, the probes invoked (probes, and order:
\* in which order), the checks that called reset_idle() (resets), what
\* get_net_stat() returned (net_stat), what xprintidle reported (x_idle) and
\* last_idle when check_x_input() returned (after_x), the power commands
\* executed, the exception raised (if any), whether a sleep request was made.
Ctx(s, r) ==
    [self |-> s, rtc |-> r, probes |-> {}, order |-> << >>, resets |-> {},
     net_stat |-> None, x_idle |-> None, after_x |-> None, calls |-> {},
     raised |-> "none", slept |-> FALSE, enough |-> FALSE]

\* A probe is invoked.
Invoke(c, probe) ==
    [c EXCEPT !.probes = @ \cup {probe}, !.order = Append(@, probe)]

Raise(c, exc) == [c EXCEPT !.raised = exc]

NoRtc == [owner |-> "none", at |-> 0]

\* ------------------------------------------------------------ the clock
\* datetime_now(): the values the wall clock can return after it returned
\* prev.  stepping: the clock may have been set back since.  self.now always
\* holds the last value read.
datetime_now(prev, stepping) ==
    IF stepping THEN 0..MaxTime ELSE prev..MaxTime

\* The values datetime_now() can return when exit_event.wait(timeout) is over:
\* the event is set, or the timeout has expired (the clock reached next_check
\* unless it was stepped).
datetime_now_after_wait(prev, next_check, is_set, stepping) ==
    IF stepping \/ is_set
    THEN datetime_now(prev, stepping)
    ELSE {t \in datetime_now(prev, stepping) : t >= next_check}

\* ------------------------------------------------------ power controller
\* delete_any_wakeup() without the test of line 441 (args.pretend).
delete_any_wakeup_not_pretending(c, a, fail) ==
    IF a.wake_up # None
    THEN IF fail = "rtcwake"
         THEN Raise([c EXCEPT !.calls = @ \cup {"rtcwake_disable"}], "rtcwake")
         ELSE [c EXCEPT !.calls = @ \cup {"rtcwake_disable"}, !.rtc = NoRtc]
    ELSE c

\* delete_any_wakeup(): rtcwake -m disable.
delete_any_wakeup(c, a, fail) ==
    IF a.wake_up # None /\ ~a.pretend
    THEN IF fail = "rtcwake"
         THEN Raise([c EXCEPT !.calls = @ \cup {"rtcwake_disable"}], "rtcwake")
         ELSE [c EXCEPT !.calls = @ \cup {"rtcwake_disable"}, !.rtc = NoRtc]
    ELSE c

\* datetime.datetime.combine(date, time): the instant of a time of the day.
combine(date, time_of_day) == date * DayLen + time_of_day

\* datetime.date(): the day of an instant.
date(t) == t \div DayLen

\* The instant program_wakeup() computes.
wake_up_time(now, time_of_day) ==
    LET wake_up == combine(date(now), time_of_day)
    IN  IF wake_up < now
        THEN combine(date(now) + 1, time_of_day)
        ELSE wake_up

\* program_wakeup(): rtcwake -m no -t timestamp.
program_wakeup(c, a, fail) ==
    IF ~a.pretend
    THEN IF fail = "rtcwake"
         THEN Raise([c EXCEPT !.calls = @ \cup {"rtcwake_set"}], "rtcwake")
         ELSE [c EXCEPT !.calls = @ \cup {"rtcwake_set"},
                        !.rtc = [owner |-> "daemon",
                                 at |-> wake_up_time(c.self.now, a.wake_up[1])]]
    ELSE c

\* go_to_sleep() without line 432: last_idle is left as it is.
go_to_sleep_keeping_last_idle(c, a, fail) ==
    LET c1 == IF a.wake_up # None THEN program_wakeup(c, a, fail) ELSE c
    IN  IF c1.raised # "none" THEN c1
        ELSE IF a.pretend THEN [c1 EXCEPT !.slept = TRUE]
        ELSE IF fail = "systemctl"
             THEN Raise([c1 EXCEPT !.slept = TRUE, !.calls = @ \cup {"systemctl"}],
                        "systemctl")
             ELSE [c1 EXCEPT !.slept = TRUE, !.calls = @ \cup {"systemctl"}]

\* go_to_sleep(): program the wake-up, reset last_idle, systemctl <state>.
go_to_sleep(c, a, fail) ==
    LET c1 == IF a.wake_up # None THEN program_wakeup(c, a, fail) ELSE c
        c2 == [c1 EXCEPT !.self.last_idle = c1.self.now]
    IN  IF c1.raised # "none" THEN c1
        ELSE IF a.pretend THEN [c2 EXCEPT !.slept = TRUE]
        ELSE IF fail = "systemctl"
             THEN Raise([c2 EXCEPT !.slept = TRUE, !.calls = @ \cup {"systemctl"}],
                        "systemctl")
             ELSE [c2 EXCEPT !.slept = TRUE, !.calls = @ \cup {"systemctl"}]

\* ------------------------------------------------------------ idle tracker
\* reset() without line 275: last_idle is left as it is.
reset_keeping_last_idle(c, a, t, fail) ==
    LET s == [prev_cpu_idle_counter |-> 0, prev_net_stat |-> NetStatDefault,
              last_idle |-> c.self.last_idle, prev_check |-> t, now |-> t]
    IN  delete_any_wakeup([c EXCEPT !.self = s], a, fail)

\* reset(): reset the dynamic context at the clock value t, delete any wake-up.
reset(c, a, t, fail) ==
    LET s == [prev_cpu_idle_counter |-> 0, prev_net_stat |-> NetStatDefault,
              last_idle |-> t, prev_check |-> t, now |-> t]
    IN  delete_any_wakeup([c EXCEPT !.self = s], a, fail)

\* reset_idle() without the test of line 336.
reset_idle_unguarded(s, idle_delta) ==
    IF idle_delta = None
    THEN [s EXCEPT !.last_idle = s.now]
    ELSE [s EXCEPT !.last_idle = s.now - idle_delta[1]]

\* reset_idle(idle_delta=None)
reset_idle(s, idle_delta) ==
    IF idle_delta = None
    THEN [s EXCEPT !.last_idle = s.now]
    ELSE LET last_idle == s.now - idle_delta[1]
         IN  IF last_idle > s.last_idle
             THEN [s EXCEPT !.last_idle = last_idle]
             ELSE s

\* average_cpu_idle < self.cpu_idle_threshold, for a non-zero elapsed time:
\* (counter - prev) / nb_threads / elapsed < 1 - cpu / 100.
cpu_too_high(delta, elapsed, cpu) ==
    IF elapsed > 0
    THEN delta * 100 < (100 - cpu) * nb_threads * elapsed
    ELSE delta * 100 > (100 - cpu) * nb_threads * elapsed

\* check_cpu(): get_cpu_idle() returned cpu_idle_counter, or failed.
check_cpu(c, a, cpu_idle_counter, fail) ==
    LET c1 == Invoke(c, "cpu")
        s == c.self
        elapsed == s.now - s.prev_check
        too_high == cpu_too_high(cpu_idle_counter - s.prev_cpu_idle_counter, elapsed,
                                 a.cpu[1])
        s1 == IF too_high THEN reset_idle(s, None) ELSE s
    IN  IF fail = "cpu" THEN Raise(c1, "get_cpu_idle")
        ELSE IF elapsed = 0 THEN Raise(c1, "ZeroDivisionError")
        ELSE [c1 EXCEPT !.self = [s1 EXCEPT !.prev_cpu_idle_counter = cpu_idle_counter],
                        !.resets = IF too_high THEN @ \cup {"cpu"} ELSE @]

\* check_net() without line 390: the name of the interface is not compared.
check_net_ignoring_ifname(c, a, net_stat, fail) ==
    LET c1 == Invoke(c, "net")
        s == c.self
        too_high == \/ net_stat.rx_packets > s.prev_net_stat.rx_packets + a.network[1]
                    \/ net_stat.tx_packets > s.prev_net_stat.tx_packets + a.network[1]
        s1 == IF too_high THEN reset_idle(s, None) ELSE s
    IN  IF fail = "net" THEN Raise(c1, "get_net_stat")
        ELSE [c1 EXCEPT !.self = [s1 EXCEPT !.prev_net_stat = net_stat],
                        !.net_stat = Some(net_stat),
                        !.resets = IF too_high THEN @ \cup {"net"} ELSE @]

\* check_net(): get_net_stat() returned net_stat, or failed.
check_net(c, a, net_stat, fail) ==
    LET c1 == Invoke(c, "net")
        s == c.self
        too_high == \/ net_stat.ifname # s.prev_net_stat.ifname
                    \/ net_stat.rx_packets > s.prev_net_stat.rx_packets + a.network[1]
                    \/ net_stat.tx_packets > s.prev_net_stat.tx_packets + a.network[1]
        s1 == IF too_high THEN reset_idle(s, None) ELSE s
    IN  IF fail = "net" THEN Raise(c1, "get_net_stat")
        ELSE [c1 EXCEPT !.self = [s1 EXCEPT !.prev_net_stat = net_stat],
                        !.net_stat = Some(net_stat),
                        !.resets = IF too_high THEN @ \cup {"net"} ELSE @]

\* check_audio(): pacmd reported running ("state: RUNNING"), or failed.
check_audio(c, a, running, fail) ==
    LET c1 == Invoke(c, "audio")
    IN  IF fail = "audio" THEN Raise(c1, "pacmd")
        ELSE IF running
             THEN [c1 EXCEPT !.self = reset_idle(c.self, None),
                             !.resets = @ \cup {"audio"}]
        ELSE c1

\* get_x_input_idle(): the context after the call; self.user must exist.
get_x_input_idle(c, a, fail) ==
    LET c1 == Invoke(c, "x")
    IN  IF ~HasUser(a) THEN Raise(c1, "AttributeError")
        ELSE IF fail = "x" THEN Raise(c1, "xprintidle")
        ELSE c1

\* check_x_input() without lines 422-424: the idle time reported is not used.
check_x_input_without_correction(c, a, x_idle, fail) ==
    LET c1 == get_x_input_idle(c, a, fail)
    IN  IF c1.raised # "none" THEN c1
        ELSE [c1 EXCEPT !.x_idle = Some(x_idle), !.after_x = Some(c.self.last_idle)]

\* check_x_input(): xprintidle reported x_idle, or failed.
check_x_input(c, a, x_idle, fail) ==
    LET c1 == get_x_input_idle(c, a, fail)
        s1 == IF x_idle < a.time THEN reset_idle(c.self, Some(x_idle)) ELSE c.self
    IN  IF c1.raised # "none" THEN c1
        ELSE [c1 EXCEPT !.self = s1, !.x_idle = Some(x_idle),
                        !.after_x = Some(s1.last_idle)]

\* "self.now > next_check + check_period": a check period was skipped.
skipped_period(s, a) == s.now > (s.prev_check + a.meas_period) + a.meas_period

\* The last two elements of a sequence.
LastTwo(q) == IF Len(q) > 2 THEN SubSeq(q, Len(q) - 1, Len(q)) ELSE q

\* "self.now > self.last_idle + self.wanted_idle_duration"
enough_idle_time(s, a) == s.now > s.last_idle + a.time

\* The checks of one tick, lines 302-316 of run(), each one skipped when an
\* earlier statement of the tick has raised.
tick_cpu(c, a, env) ==
    IF c.raised = "none" /\ a.cpu # None
    THEN check_cpu(c, a, env.cpu_idle_counter, env.fail) ELSE c

tick_net(c, a, env) ==
    IF c.raised = "none" /\ a.network # None
    THEN check_net(c, a, env.net_stat, env.fail) ELSE c

tick_audio(c, a, env) ==
    IF c.raised = "none" /\ a.audio
    THEN check_audio(c, a, env.running, env.fail) ELSE c

\* The X check without the tests of lines 315 and 336: last_idle is always
\* set to the instant of the last input when that is recent.
tick_x_input_unconditional(c, a, env) ==
    LET c1 == get_x_input_idle(c, a, env.fail)
        s1 == IF env.x_idle < a.time
              THEN [c.self EXCEPT !.last_idle = c.self.now - env.x_idle]
              ELSE c.self
    IN  IF c.raised # "none" \/ c1.raised # "none" THEN c1
        ELSE [c1 EXCEPT !.self = s1, !.x_idle = Some(env.x_idle),
                        !.after_x = Some(s1.last_idle)]

tick_x_input(c, a, env) ==
    IF c.raised = "none" /\ x_input_is_not_None(a) /\ enough_idle_time(c.self, a)
    THEN check_x_input(c, a, env.x_idle, env.fail) ELSE c

\* Lines 318-320 of run(): enough idle time ?  (enough records whether
\* now - last_idle has reached args.time when the decision is taken.)
tick_sleep(c, a, env) ==
    LET c1 == [c EXCEPT !.enough = c.self.now - c.self.last_idle >= a.time]
    IN  IF c.raised # "none" THEN c
        ELSE IF enough_idle_time(c.self, a) THEN go_to_sleep(c1, a, env.fail)
        ELSE c1

\* Lines 302-320 of run(): the checks of one tick and the sleep decision.
tick(c, a, env) ==
    tick_sleep(tick_x_input(tick_audio(tick_net(tick_cpu(c, a, env), a, env),
                                       a, env), a, env), a, env)

\* What one call of a tick can give: <<TRUE, sample>>, or <<FALSE, default>>
\* when it fails; only the default when the call is not made.
Outcomes(called, samples, default) ==
    IF called
    THEN {<<FALSE, default>>} \cup {<<TRUE, v>> : v \in samples}
    ELSE {<<TRUE, default>>}

\* The samples and the failure of one tick: what the calls made in it give.
\* At most one call fails, the first failure ends the tick.  xprintidle
\* reports 0 .. args.time: every longer idle time is handled as args.time is
\* (it is not shorter than the wanted idle duration).
Env(cpu, net, audio, x, power) ==
    [fail |-> IF ~cpu[1] THEN "cpu" ELSE IF ~net[1] THEN "net"
              ELSE IF ~audio[1] THEN "audio" ELSE IF ~x[1] THEN "x" ELSE power,
     cpu_idle_counter |-> cpu[2], net_stat |-> net[2], running |-> audio[2],
     x_idle |-> x[2]]

NoCall(default) == <<TRUE, default>>

\* The power commands of a tick that can fail: those go_to_sleep() executes.
PowerFailures(c, a) ==
    IF c.raised = "none" /\ enough_idle_time(c.self, a) /\ ~a.pretend
    THEN {"none", "systemctl"} \cup (IF a.wake_up # None THEN {"rtcwake"} ELSE {})
    ELSE {"none"}

\* The environments of a tick that starts in context c, the idle counter of
\* the system being idle: one for each course the tick can take.
Envs(c, a, idle) ==
    UNION {UNION {UNION {UNION {
        {Env(cpu, net, audio, x, power) :
            power \in PowerFailures(
                tick_x_input(tick_audio(tick_net(tick_cpu(c, a,
                    Env(cpu, net, audio, x, "none")), a,
                    Env(cpu, net, audio, x, "none")), a,
                    Env(cpu, net, audio, x, "none")), a,
                    Env(cpu, net, audio, x, "none")), a)} :
        x \in Outcomes(LET e == Env(cpu, net, audio, NoCall(0), "none")
                           c3 == tick_audio(tick_net(tick_cpu(c, a, e), a, e), a, e)
                       IN  c3.raised = "none" /\ x_input_is_not_None(a)
                           /\ enough_idle_time(c3.self, a) /\ HasUser(a),
                       0..a.time, 0)} :
        audio \in Outcomes(LET e == Env(cpu, net, NoCall(FALSE), NoCall(0), "none")
                           IN  tick_net(tick_cpu(c, a, e), a, e).raised = "none"
                               /\ a.audio,
                           BOOLEAN, FALSE)} :
        net \in Outcomes(LET e == Env(cpu, NoCall(NetStatDefault), NoCall(FALSE),
                                      NoCall(0), "none")
                         IN  tick_cpu(c, a, e).raised = "none" /\ a.network # None,
                         NetStats, NetStatDefault)} :
        cpu \in Outcomes(a.cpu # None, idle..MaxCpuIdle, idle)}

\* The history record of a step.
Last(kind, c) ==
    [kind |-> kind, probes |-> c.probes, order |-> c.order, resets |-> c.resets,
     net_stat |-> c.net_stat, x_idle |-> c.x_idle, after_x |-> c.after_x, calls |-> c.calls,
     raised |-> c.raised, slept |-> c.slept, enough |-> c.enough]

\* ------------------------------------------------------------------ Init
\* The object before __init__ has run reset(); also what is left of it when
\* the process has ended.  Time is counted from the start of the daemon.
NoContext ==
    [prev_cpu_idle_counter |-> 0, prev_net_stat |-> NetStatDefault,
     last_idle |-> 0, prev_check |-> 0, now |-> 0]

\* The process has ended.
Ended(p) == p \in {"terminated", "exited", "crashed"}

\* The object after a step that leads to p.
Alive(s, p) == IF Ended(p) THEN NoContext ELSE s

\* The command line is parsed, the signal handlers are set, reset() has not
\* run yet.  A wake alarm set by someone else is pending in the RTC.
Init ==
    /\ args \in Configs
    /\ pc = "init"
    /\ exit_event = FALSE
    /\ self = NoContext
    /\ cpu_idle \in (IF args.cpu # None THEN 0..1 ELSE {0})
    /\ rtc = [owner |-> "other", at |-> 0]
    /\ retry = 0
    /\ last = Last("none", Ctx(self, rtc))
    /\ sleeps = << >>
    /\ missed_at = None
    /\ stopped_at = "none"
    /\ clock_steps = 0
    /\ suspending = FALSE

\* --------------------------------------------------------------- actions
\* _signal_handler(): SIGINT or SIGTERM is delivered.
signal_handler ==
    /\ ~Ended(pc)
    /\ ~exit_event
    /\ exit_event' = TRUE
    /\ stopped_at' = pc
    /\ UNCHANGED <<args, pc, self, cpu_idle, rtc, retry, last, sleeps, missed_at,
                   clock_steps,
                   suspending>>

\* __init__, line 248: self.reset().
init_reset ==
    /\ pc = "init"
    /\ \E fail \in {"none", "rtcwake"} :
        LET c == reset(Ctx(self, rtc), args, self.now, fail)
            p == IF c.raised # "none" THEN "crashed" ELSE "validate"
        IN  /\ self' = Alive(c.self, p)
            /\ rtc' = c.rtc
            /\ last' = Last("init", c)
            /\ pc' = p
    /\ UNCHANGED <<args, exit_event, cpu_idle, retry, sleeps, missed_at, stopped_at,
                   clock_steps,
                   suspending>>

\* __init__, lines 250-263: validate the access to xprintidle, one attempt.
\* CalledProcessError is caught (another attempt, sys.exit(1) after the last
\* one), any other exception is not.
validate_x_input ==
    /\ pc = "validate"
    /\ IF ~x_input_is_not_None(args)
       THEN /\ pc' = "while"
            /\ UNCHANGED <<self, last, retry,
                   suspending>>
       ELSE \E fail \in {"none", "x"} :
            LET c == get_x_input_idle(Ctx(self, rtc), args, fail)
                p == IF c.raised = "none" THEN "while"
                     ELSE IF c.raised # "xprintidle" THEN "crashed"
                     ELSE IF retry + 1 = MaxRetry THEN "exited"
                     ELSE "validate"
            IN  /\ last' = Last("validate", [c EXCEPT !.raised =
                                 IF @ = "xprintidle" THEN "none" ELSE @])
                /\ retry' = IF p = "validate" THEN retry + 1 ELSE 0
                /\ self' = Alive(self, p)
                /\ pc' = p
    /\ UNCHANGED <<args, exit_event, cpu_idle, rtc, sleeps, missed_at, stopped_at,
                   clock_steps,
                   suspending>>

\* run(), lines 325-327: the loop is left, delete any wake-up, "Terminated".
terminate ==
    \E fail \in {"none", "rtcwake"} :
        LET c == delete_any_wakeup(Ctx(self, rtc), args, fail)
        IN  /\ rtc' = c.rtc
            /\ last' = Last("exit", c)
            /\ pc' = IF c.raised # "none" THEN "crashed" ELSE "terminated"
            /\ self' = NoContext
            /\ UNCHANGED <<args, exit_event, cpu_idle, retry, sleeps, missed_at,
                           stopped_at, clock_steps,
                   suspending>>

\* run(), line 284 with the event set: "while not self.exit_event.is_set()".
run_exit ==
    /\ pc = "while"
    /\ exit_event
    /\ terminate

\* run(), lines 284-288: the loop goes on, read the clock, wait if early.
run_next_check(stepping) ==
    /\ pc = "while"
    /\ ~exit_event
    /\ \E t \in datetime_now(self.now, stepping /\ clock_steps < MaxClockSteps) :
        /\ self' = [self EXCEPT !.now = t]
        /\ pc' = IF t < self.prev_check + args.meas_period THEN "wait" ELSE "check"
        /\ clock_steps' = IF t < self.now THEN clock_steps + 1 ELSE clock_steps
    /\ last' = Last("none", Ctx(NoContext, rtc))
    /\ UNCHANGED <<args, exit_event, cpu_idle, rtc, retry, sleeps, missed_at,
                   stopped_at,
                   suspending>>

\* run(), lines 289-290: exit_event.wait(timeout) returns, read the clock.
run_wait(stepping) ==
    /\ pc = "wait"
    /\ \E t \in datetime_now_after_wait(self.now, self.prev_check + args.meas_period,
                    exit_event, stepping /\ clock_steps < MaxClockSteps) :
        /\ self' = [self EXCEPT !.now = t]
        /\ clock_steps' =
              IF t < self.now \/ (~exit_event /\ t < self.prev_check + args.meas_period)
              THEN clock_steps + 1 ELSE clock_steps
    /\ pc' = "check"
    /\ UNCHANGED <<args, exit_event, cpu_idle, rtc, retry, last, sleeps, missed_at,
                   stopped_at,
                   suspending>>

\* run(), lines 293-294: exit if requested.
run_break ==
    /\ pc = "check"
    /\ exit_event
    /\ terminate

\* run(), lines 296-300: a check period was skipped, reset completely.
run_missed(stepping) ==
    /\ pc = "check"
    /\ ~exit_event
    /\ skipped_period(self, args)
    /\ \E t \in datetime_now(self.now, stepping /\ clock_steps < MaxClockSteps),
          fail \in {"none", "rtcwake"} :
        LET c == reset(Ctx(self, rtc), args, t, fail)
            p == IF c.raised # "none" THEN "crashed" ELSE "while"
        IN  /\ self' = Alive(c.self, p)
            /\ rtc' = c.rtc
            /\ last' = Last("missed", c)
            /\ missed_at' = Some(t)
            /\ clock_steps' = IF t < self.now THEN clock_steps + 1 ELSE clock_steps
            /\ pc' = p
    /\ UNCHANGED <<args, exit_event, cpu_idle, retry, sleeps, stopped_at,
                   suspending>>

\* run(), lines 302-323: the checks, the sleep decision, prev_check = now.
run_tick ==
    /\ pc = "check"
    /\ ~exit_event
    /\ ~skipped_period(self, args)
    /\ \E env \in Envs(Ctx(self, rtc), args, cpu_idle) :
        LET c == tick(Ctx(self, rtc), args, env)
            p == IF c.raised # "none" THEN "crashed" ELSE "while"
        IN  /\ self' = Alive([c.self EXCEPT !.prev_check = c.self.now], p)
            /\ rtc' = c.rtc
            /\ cpu_idle' = IF "cpu" \in c.probes /\ c.raised # "get_cpu_idle"
                           THEN env.cpu_idle_counter ELSE cpu_idle
            /\ last' = Last("checked", c)
            /\ sleeps' = IF c.slept THEN LastTwo(Append(sleeps, self.now)) ELSE sleeps
            /\ suspending' = (suspending \/ ("systemctl" \in c.calls /\ c.raised = "none"))
            /\ pc' = p
    /\ UNCHANGED <<args, exit_event, retry, missed_at, stopped_at, clock_steps>>

\* The machine goes to sleep, some time after systemctl <state> was called
\* ("the request is asynchronous", line 434).  The process is stopped with
\* it and goes on when the machine is awake again: the clock has advanced.
machine_sleeps ==
    /\ suspending
    /\ suspending' = FALSE
    /\ UNCHANGED <<args, pc, exit_event, self, cpu_idle, rtc, retry, last, sleeps,
                   missed_at, stopped_at, clock_steps>>

\* The steps of the process, with a wall clock that is (stepping) or is not
\* set back between two reads.
Step(stepping) ==
    \/ signal_handler
    \/ init_reset
    \/ validate_x_input
    \/ run_exit
    \/ run_next_check(stepping)
    \/ run_wait(stepping)
    \/ run_break
    \/ run_missed(stepping)
    \/ run_tick

\* The daemon, and the machine that goes to sleep when asked to.
Next == Step(FALSE) \/ machine_sleeps

NextClockStep == Step(TRUE)

\* The daemon with a wall clock that never goes back.
Spec == Init /\ [][Next]_vars

\* Dry run without wake-up time: the configurations in which no power command
\* is executed.
InitClockStep == Init /\ args.wake_up = None /\ args.pretend

\* The daemon with a wall clock that is set back, at most MaxClockSteps times.
SpecClockStep == InitClockStep /\ [][NextClockStep]_vars

\* ------------------------------------------------- check_x_input() alone
\* check_x_input() as a function of the object and of what xprintidle reports:
\* any last_idle, any now, any idle time that xprintidle can report.
XInputConfigs ==
    {a \in Configs : /\ a.x_input /\ ~a.audio /\ a.cpu = None /\ a.network = None
                     /\ a.wake_up = None /\ a.pretend}

InitXInput ==
    /\ args \in XInputConfigs
    /\ pc = "check_x_input"
    /\ exit_event = FALSE
    /\ self \in {[NoContext EXCEPT !.now = n, !.last_idle = l] :
                      n \in 0..MaxTime, l \in 0..MaxTime}
    /\ cpu_idle = 0
    /\ rtc = [owner |-> "other", at |-> 0]
    /\ retry = 0
    /\ last = Last("none", Ctx(NoContext, rtc))
    /\ sleeps = << >>
    /\ missed_at = None
    /\ stopped_at = "none"
    /\ clock_steps = 0
    /\ suspending = FALSE

\* One call of check_x_input(), xprintidle reporting x_idle.
call_check_x_input ==
    /\ pc = "check_x_input"
    /\ \E x_idle \in 0..MaxTime :
        LET c == check_x_input(Ctx(self, rtc), args, x_idle, "none")
        IN  /\ self' = c.self
            /\ last' = Last("check_x_input", c)
    /\ pc' = "returned"
    /\ UNCHANGED <<args, exit_event, cpu_idle, rtc, retry, sleeps, missed_at,
                   stopped_at, clock_steps, suspending>>

SpecXInput == InitXInput /\ [][call_check_x_input]_vars

\* The four checks of a tick, and the orders in which they can be applied.
Checks == {"cpu", "net", "audio", "x"}

Orders == {o \in [1..4 -> Checks] : \A i, j \in 1..4 : i # j => o[i] # o[j]}

\* One check of a tick, as run() makes it.
tick_check(check, c, a, env) ==
    CASE check = "cpu" -> tick_cpu(c, a, env)
      [] check = "net" -> tick_net(c, a, env)
      [] check = "audio" -> tick_audio(c, a, env)
      [] check = "x" -> tick_x_input(c, a, env)

\* The four checks applied in the order o.
tick_in_order(o, c, a, env) ==
    tick_check(o[4], tick_check(o[3], tick_check(o[2], tick_check(o[1], c, a, env),
                                                 a, env), a, env), a, env)

\* Every set of samples the probes can return in a tick (no probe fails).
Samples(a, idle) ==
    {Env(<<TRUE, cpu>>, <<TRUE, net>>, <<TRUE, audio>>, <<TRUE, x>>, "none") :
        cpu \in (IF a.cpu # None THEN idle..MaxCpuIdle ELSE {idle}),
        net \in (IF a.network # None THEN NetStats ELSE {NetStatDefault}),
        audio \in (IF a.audio THEN BOOLEAN ELSE {FALSE}),
        x \in 0..a.time}

\* The later of two instants.
Later(t1, t2) == IF t1 >= t2 THEN t1 ELSE t2

\* ------------------------------------------------- the checks in any order
\* The checks of a tick as a function of the object and of the samples: any
\* last_idle, earlier than now by less or by more than args.time, or later
\* than now; one period after the previous tick; any baseline of the network
\* check.  No power command is involved.
ChecksConfigs == {a \in Configs : HasUser(a) /\ a.wake_up = None /\ a.pretend}

InitChecks ==
    /\ args \in ChecksConfigs
    /\ pc = "checks"
    /\ exit_event = FALSE
    /\ cpu_idle \in (IF args.cpu # None THEN 0..1 ELSE {0})
    /\ self \in {[prev_cpu_idle_counter |-> cpu_idle, prev_net_stat |-> n,
                 last_idle |-> l, prev_check |-> t - args.meas_period, now |-> t] :
                    n \in (IF args.network # None THEN NetStats ELSE {NetStatDefault}),
                    l \in 0..MaxTime, t \in {MaxTime \div 2, MaxTime}}
    /\ rtc = [owner |-> "other", at |-> 0]
    /\ retry = 0
    /\ last = Last("none", Ctx(NoContext, rtc))
    /\ sleeps = << >>
    /\ missed_at = None
    /\ stopped_at = "none"
    /\ clock_steps = 0
    /\ suspending = FALSE

\* The four checks, made in some order with some samples.
call_checks ==
    /\ pc = "checks"
    /\ \E env \in Samples(args, cpu_idle), o \in Orders :
        LET c == tick_in_order(o, Ctx(self, rtc), args, env)
        IN  /\ self' = c.self
            /\ last' = Last("checks", c)
    /\ pc' = "returned"
    /\ UNCHANGED <<args, exit_event, cpu_idle, rtc, retry, sleeps, missed_at,
                   stopped_at, clock_steps, suspending>>

SpecChecks == InitChecks /\ [][call_checks]_vars

\* ================================================================ claims

\* The checks of the last tick ran to their end: no stop request, no skipped
\* period, no exception; the loop is back at its head.
TickCompleted == pc = "while" /\ last.kind = "checked"

\* C1: in every tick in which the signal checks ran, a sleep request is issued
\* exactly when, after all the evaluations of the tick,
\* now - last_idle >= args.time (the wanted idle duration).
C1_SleepExactlyWhenIdleLongEnough ==
    TickCompleted => (last.slept <=> last.enough)

\* C2: one sleep request per idle episode.  After a tick has issued a sleep
\* request at time t, last_idle equals t (and t is the tick's now), and two
\* sleep requests are never closer together than args.time.
C2_OneSleepPerIdleEpisode ==
    /\ (TickCompleted /\ last.slept) =>
           /\ self.last_idle = self.now
           /\ sleeps # << >>
           /\ sleeps[Len(sleeps)] = self.now
    /\ Len(sleeps) = 2 => sleeps[2] - sleeps[1] >= args.time

\* A second sleep request has been issued, args.time or more after the first.
C2_Witness == TickCompleted /\ last.slept /\ Len(sleeps) = 2

\* C3: a tick that finds now > prev_check + 2 * meas_period resets completely
\* (last_idle and prev_check are the current time, the CPU and network
\* baselines their defaults), executes no power command but the deletion of
\* the wake-up, leaves no wake-up programmed by the daemon, invokes no probe
\* and issues no sleep request; and every later sleep request comes
\* args.time or more after the reset.
C3_MissedPeriodResets ==
    /\ [][(pc = "check" /\ ~exit_event /\ pc' # "check"
           /\ self.now > self.prev_check + 2 * args.meas_period)
          => /\ last'.kind = "missed"
             /\ last'.probes = {}
             /\ ~last'.slept
             /\ last'.calls \subseteq {"rtcwake_disable"}
             /\ (args.wake_up # None /\ ~args.pretend)
                    => "rtcwake_disable" \in last'.calls
             /\ pc' = "while" =>
                    /\ self'.last_idle = self'.now
                    /\ self'.prev_check = self'.now
                    /\ self'.now >= self.now
                    /\ self'.prev_cpu_idle_counter = 0
                    /\ self'.prev_net_stat = NetStatDefault
                    /\ rtc'.owner # "daemon"
                    /\ missed_at' = Some(self'.now)]_vars
    /\ [](last.kind = "missed" => (last.probes = {} /\ ~last.slept))
    /\ []((last.kind = "checked" /\ last.slept /\ missed_at # None /\ pc = "while")
            => self.now - missed_at[1] >= args.time)

\* A sleep request is issued after the reset of a skipped period.
C3_Witness ==
    TickCompleted /\ last.slept /\ missed_at # None /\ self.now > missed_at[1]

\* The exceptions a failing signal probe raises.
ProbeErrors == {"get_cpu_idle", "get_net_stat", "pacmd", "xprintidle"}

\* The exceptions a failing power command raises.
PowerErrors == {"rtcwake", "systemctl"}

\* C4: a failure of a signal probe during a tick never ends the loop: the
\* signal counts as not idle for that tick (last_idle = now) and the scheduler
\* goes on to the next tick.
C4_ProbeFailureNeverEndsLoop ==
    (last.kind = "checked" /\ last.raised \in ProbeErrors) =>
        (pc = "while" /\ self.last_idle = self.now /\ self.prev_check = self.now)

\* C5: a failure of a power command (the sleep request, the programming of
\* the wake-up, its deletion) in a tick does not end the daemon: the scheduler
\* sets prev_check and goes on to the next tick.
C5_PowerFailureNeverEndsDaemon ==
    (last.kind \in {"checked", "missed"} /\ last.raised \in PowerErrors) =>
        (pc = "while" /\ self.prev_check = self.now)

\* C6: when the process has ended, with a wake-up time configured, no wake-up
\* programmed by the daemon is left pending.
C6_NoWakeUpLeftAtEnd ==
    (Ended(pc) /\ args.wake_up # None) => rtc.owner # "daemon"

\* C7: a stop request that arrives before the wait starts or during the wait
\* ends the wait, and the loop then reaches "terminated" without a probe, a
\* sleep request or anything else of a later tick.
C7_StopInWaitTerminates ==
    stopped_at = "wait" =>
        /\ last.kind \in {"none", "exit"}
        /\ last.probes = {}
        /\ ~last.slept
        /\ pc \in {"wait", "check", "terminated"}

\* C8: last_idle <= now in every state, also when the wall clock is set back
\* between two reads.
C8_LastIdleNotAfterNow == self.last_idle <= self.now

\* C9: the wake-up programmed when sleep is triggered is the next occurrence
\* of the configured time of the day: later than now, at most one day later.
C9_WakeUpIsNextOccurrence ==
    (TickCompleted /\ "rtcwake_set" \in last.calls) =>
        /\ rtc.owner = "daemon"
        /\ rtc.at % DayLen = args.wake_up[1]
        /\ rtc.at > self.now
        /\ rtc.at <= self.now + DayLen

\* C10: when no signal is enabled, no signal probe is ever invoked, neither
\* at startup nor in a tick, and no step of the daemon fails for want of what
\* only an enabled signal sets up.
C10_NoProbeWithoutSignals ==
    NoSignals(args) => (last.probes = {} /\ last.raised # "AttributeError")

\* A step of run() that carries out the checks of a tick to their end.
TickStep == pc = "check" /\ pc' = "while" /\ last'.kind = "checked"

\* C11: in every tick that evaluates the CPU signal, last_idle is set to now
\* exactly when the idle time the system accumulated since the previous tick
\* (since the start, for the first tick), divided by the number of threads and
\* by the time elapsed since then, is below 1 - cpu / 100; otherwise the CPU
\* check leaves last_idle as it is.
C11_CpuResetsExactlyBelowThreshold ==
    [][(TickStep /\ "cpu" \in last'.probes) =>
          /\ "cpu" \in last'.resets <=>
                 (cpu_idle' - cpu_idle) * 100
                     < (100 - args.cpu[1]) * nb_threads * (self.now - self.prev_check)
          /\ ("cpu" \in last'.resets /\ ~last'.slept) => self'.last_idle = self'.now
          /\ (last'.resets = {} /\ last'.x_idle = None /\ ~last'.slept)
                 => self'.last_idle = self.last_idle]_vars

\* C12: check_net() sets last_idle to now whenever the name of the interface
\* differs from the previous sample's, whatever the packet counts; with the
\* same name, exactly when the received or the transmitted count grew by more
\* than args.network; and the current sample is the baseline of the next tick.
C12_NetResetsOnNameOrPackets ==
    [][(TickStep /\ "net" \in last'.probes) =>
          LET prev == self.prev_net_stat
              curr == last'.net_stat[1]
          IN  /\ last'.net_stat # None
              /\ curr.ifname # prev.ifname => "net" \in last'.resets
              /\ curr.ifname = prev.ifname =>
                     ("net" \in last'.resets <=>
                          \/ curr.rx_packets - prev.rx_packets > args.network[1]
                          \/ curr.tx_packets - prev.tx_packets > args.network[1])
              /\ ("net" \in last'.resets /\ ~last'.slept) => self'.last_idle = self'.now
              /\ (last'.resets = {} /\ last'.x_idle = None /\ ~last'.slept)
                     => self'.last_idle = self.last_idle
              /\ self'.prev_net_stat = curr]_vars

\* check_net() has reset last_idle for a sample without interface that is UP
\* (no packets), after a sample of an interface: the name has changed, no
\* packet count has grown.
C12_Witness ==
    /\ TickCompleted
    /\ "net" \in last.resets
    /\ last.net_stat = Some(NetStatDefault)
    /\ self.last_idle = self.now

\* C13: the X-input correction never moves last_idle earlier.  For every
\* last_idle, now and idle time reported, after check_x_input() last_idle is
\* unchanged, or it is now - x_idle and that instant is later than the
\* previous last_idle.
C13_XInputNeverMovesLastIdleBack ==
    [][(pc = "check_x_input" /\ pc' = "returned") =>
          /\ last'.x_idle # None
          /\ last'.after_x = Some(self'.last_idle)
          /\ \/ self'.last_idle = self.last_idle
             \/ /\ self'.last_idle = self.now - last'.x_idle[1]
                /\ self'.last_idle > self.last_idle
          /\ self'.last_idle >= self.last_idle]_vars

\* xprintidle reported an idle time shorter than args.time that starts
\* before last_idle.
C13_Witness ==
    /\ pc = "returned"
    /\ last.x_idle # None
    /\ last.x_idle[1] < args.time
    /\ self.now - last.x_idle[1] < self.last_idle

\* C14: with -P (pretend) no power command is ever executed: no systemctl,
\* no rtcwake that programs a wake-up, no rtcwake that deletes one; the RTC
\* alarm stays as it was found and the machine is never asked to sleep.
C14_PretendExecutesNoPowerCommand ==
    args.pretend =>
        /\ last.calls = {}
        /\ rtc = [owner |-> "other", at |-> 0]
        /\ ~suspending

\* A dry run with a wake-up time has started, reset after a skipped period,
\* triggered sleep and terminated.
C14_Witness ==
    /\ args.pretend
    /\ args.wake_up # None
    /\ pc = "terminated"
    /\ missed_at # None
    /\ sleeps # << >>

\* C15: when __init__ has run reset(), for every configuration, last_idle and
\* prev_check are the start time and the wake-up that was pending in the RTC
\* has been deleted by rtcwake -m disable (unless -P: the command is logged).
C15_StartDeletesPendingWakeUp ==
    (last.kind = "init" /\ pc = "validate") =>
        /\ self.last_idle = self.now
        /\ self.prev_check = self.now
        /\ ~args.pretend =>
               ("rtcwake_disable" \in last.calls /\ rtc.owner = "none")

\* C16: with a wake-up time and without -P, whenever the machine goes to
\* sleep after a sleep request of the daemon (no stop request meanwhile), the
\* wake-up programmed in the tick of the request is still pending: it was not
\* deleted between the request and the sleep.
C16_WakeUpPendingWhenMachineSleeps ==
    [][(suspending /\ ~suspending' /\ args.wake_up # None /\ ~exit_event
        /\ ~Ended(pc))
          => rtc.owner = "daemon"]_vars

\* C17: in a tick whose now is not later than prev_check (the clock stood
\* still or was set back), the CPU check is skipped: it does not reset
\* last_idle and it raises nothing (no division by zero).
C17_CpuCheckSkippedWithoutElapsedTime ==
    [][(pc = "check" /\ last'.kind = "checked" /\ args.cpu # None
        /\ self.now <= self.prev_check)
          => /\ last'.raised # "ZeroDivisionError"
             /\ "cpu" \notin last'.resets]_vars

\* The place of a check in the order CPU, network, audio, X input.
CheckRank(probe) ==
    CASE probe = "cpu" -> 1 [] probe = "net" -> 2 [] probe = "audio" -> 3
      [] probe = "x" -> 4

\* C18: in every tick the checks run in the order CPU, network, audio, X
\* input, each one only if its signal is enabled; the X probe is invoked only
\* when, after the other checks, now - last_idle has reached args.time, and
\* never in a tick in which an earlier check has reset last_idle.
C18_ChecksInOrderWhenEnabled ==
    [][(pc = "check" /\ last'.kind = "checked") =>
          /\ \A i, j \in DOMAIN last'.order :
                 i < j => CheckRank(last'.order[i]) < CheckRank(last'.order[j])
          /\ "cpu" \in last'.probes => args.cpu # None
          /\ "net" \in last'.probes => args.network # None
          /\ "audio" \in last'.probes => args.audio
          /\ "x" \in last'.probes =>
                 /\ args.x_input
                 /\ last'.resets = {}
                 /\ self.now - self.last_idle >= args.time]_vars

\* C19: in a tick in which xprintidle is invoked and reports an idle time
\* shorter than args.time, last_idle becomes now - x_idle (the test of
\* reset_idle() passes) and the tick issues no sleep request and executes no
\* power command.
C19_RecentXInputVetoesSleep ==
    [][(pc = "check" /\ last'.kind = "checked" /\ last'.x_idle # None
        /\ last'.x_idle[1] < args.time)
          => /\ last'.after_x = Some(self.now - last'.x_idle[1])
             /\ self.now - last'.x_idle[1] > self.last_idle
             /\ ~last'.slept
             /\ last'.calls = {}
             /\ pc' = "while"
             /\ self'.last_idle = self.now - last'.x_idle[1]]_vars

\* xprintidle has reported a recent input in a tick in which audio was
\* checked too, with a wake-up time and without -P.
C19_Witness ==
    /\ TickCompleted
    /\ last.order = <<"audio", "x">>
    /\ last.x_idle # None
    /\ last.x_idle[1] < args.time
    /\ last.x_idle[1] > 0
    /\ args.wake_up # None
    /\ ~args.pretend

\* C20: within one tick the four checks commute.  For every last_idle and
\* every set of samples, the checks applied in any order give the last_idle
\* they give in the order of run(): now if the CPU, the network or the audio
\* check resets, otherwise the later of the old last_idle and now - x_idle
\* when xprintidle is asked and reports less than args.time, otherwise the old
\* last_idle.
C20_ChecksCommute ==
    pc = "checks" =>
        \A env \in Samples(args, cpu_idle) :
            LET c0 == Ctx(self, rtc)
                c1 == tick_in_order(<<"cpu", "net", "audio", "x">>, c0, args, env)
                last_idle == c1.self.last_idle
            IN  /\ c1.raised = "none"
                /\ last_idle =
                       IF c1.resets # {} THEN self.now
                       ELSE IF c1.x_idle # None /\ c1.x_idle[1] < args.time
                            THEN Later(self.last_idle, self.now - c1.x_idle[1])
                            ELSE self.last_idle
                /\ \A o \in Orders :
                       tick_in_order(o, c0, args, env).self.last_idle = last_idle

\* The X check came first and took a recent input into account, then another
\* check has reset last_idle to now: in the order of run() xprintidle is not
\* asked at all with these samples.
C20_Witness ==
    /\ pc = "returned"
    /\ last.order = <<"x", "cpu", "net", "audio">>
    /\ last.x_idle # None
    /\ last.x_idle[1] < args.time
    /\ last.after_x = Some(self.now - last.x_idle[1])
    /\ last.resets = {"audio"}
    /\ self.last_idle = self.now

====
